---- MODULE Spec2Model ----
(***************************************************************************)
(* Routing, gating and policy-enforcement core of the DevOps AI platform:  *)
(* AgentOrchestrator (orchestrator.py), IncidentAgent (incident_agent.py), *)
(* InfrastructureAgent (infra_agent.py), PipelineAgent (pipeline_agent.py).*)
(*                                                                         *)
(* One orchestrator instance serves one request at a time.  A request is   *)
(* cut into steps at its suspension points (the awaited reasoning-engine   *)
(* calls) and at the calls to the cluster backend that may raise.          *)
(* Text is modelled as a sequence of one-character strings so that         *)
(* str.lower(), str.strip() and the `in` substring test are computed.      *)
(***************************************************************************)
EXTENDS Integers, Sequences, FiniteSets, TLC

\* ---------------------------------------------------------------- bounds
MaxPods == 2        \* pods in a namespace snapshot
MaxActions == 2     \* entries in the reasoning engine's safe_actions list
MaxWords == 3       \* words in a generated Terraform artifact
MaxJobs == 2        \* jobs in a parsed workflow

\* ------------------------------------------------------------ text model
Space == " "
Whitespace == {" ", "\n", "\t"}

UpperToLower == [c \in {"T", "X", "I", "P"} |->
                   CASE c = "T" -> "t" [] c = "X" -> "x"
                     [] c = "I" -> "i" [] c = "P" -> "p"]

\* str.lower()
Lower(t) == [i \in 1..Len(t) |->
               IF t[i] \in DOMAIN UpperToLower THEN UpperToLower[t[i]] ELSE t[i]]

\* `needle in text`
In(needle, text) ==
    LET t == text
    IN  \E i \in 0..(Len(t) - Len(needle)) :
            \A j \in 1..Len(needle) : t[i + j] = needle[j]

RECURSIVE LStrip(_)
LStrip(t) == IF t # <<>> /\ Head(t) \in Whitespace THEN LStrip(Tail(t)) ELSE t

RECURSIVE RStrip(_)
RStrip(t) == IF t # <<>> /\ t[Len(t)] \in Whitespace
             THEN RStrip(SubSeq(t, 1, Len(t) - 1)) ELSE t

\* str.strip()
Strip(t) == RStrip(LStrip(t))

\* " ".join(words)
RECURSIVE Join(_)
Join(ws) == IF ws = <<>> THEN <<>>
            ELSE IF Len(ws) = 1 THEN ws[1]
            ELSE ws[1] \o <<Space>> \o Join(Tail(ws))

\* dict.get(key, default)
Get(d, k, default) == IF k \in DOMAIN d THEN d[k] ELSE default

\* sequences over S of length at most n
SeqsUpTo(S, n) == UNION {[1..k -> S] : k \in 0..n}

\* ------------------------------------------------------- string literals
S_public == <<"p","u","b","l","i","c">>
S_block_public == <<"b","l","o","c","k","_","p","u","b","l","i","c">>
S_tags == <<"t","a","g","s">>
S_2xlarge == <<"2","x","l","a","r","g","e">>
S_4xlarge == <<"4","x","l","a","r","g","e">>
S_encrypted == <<"e","n","c","r","y","p","t","e","d">>
S_kms == <<"k","m","s">>
S_s3 == <<"s","3">>
S_instance == <<"i","n","s","t","a","n","c","e">>
S_eks_cluster == <<"e","k","s","_","c","l","u","s","t","e","r">>
S_rds_instance == <<"r","d","s","_","i","n","s","t","a","n","c","e">>
S_s3_bucket == <<"s","3","_","b","u","c","k","e","t">>
S_elasticache == <<"e","l","a","s","t","i","c","a","c","h","e">>
S_incident == <<"i","n","c","i","d","e","n","t">>
S_infrastructure == <<"i","n","f","r","a","s","t","r","u","c","t","u","r","e">>
S_pipeline == <<"p","i","p","e","l","i","n","e">>

\* ===================================================== infra_agent.py
\* POLICIES, in declaration order (dict iteration order)
PolicyNames == <<"no_public_s3", "enforce_tagging",
                 "instance_size_limit", "encryption_required">>

\* POLICIES[name]["check"](tf)
PolicyCheck(name, tf) ==
    CASE name = "no_public_s3" ->
           ~In(S_public, Lower(tf)) \/ In(S_block_public, Lower(tf))
      [] name = "enforce_tagging" ->
           In(S_tags, Lower(tf))
      [] name = "instance_size_limit" ->
           ~In(S_2xlarge, tf) \/ ~In(S_4xlarge, tf)
      [] name = "encryption_required" ->
           In(S_encrypted, Lower(tf)) \/ In(S_kms, Lower(tf)) \/ ~In(S_s3, Lower(tf))

\* POLICIES[name]["description"]
PolicyDescription(name) ==
    CASE name = "no_public_s3" -> "S3 buckets must not have public access"
      [] name = "enforce_tagging" -> "All resources must have environment and owner tags"
      [] name = "instance_size_limit" -> "EC2 instances must not exceed xlarge in non-prod"
      [] name = "encryption_required" -> "Storage resources must have encryption enabled"

SkipPolicyNever(name, environment) == FALSE

\* the `continue` of _validate_policies
SkipPolicy(name, environment) ==
    name = "instance_size_limit" /\ environment = "production"

RECURSIVE ValidateFrom(_, _, _)
ValidateFrom(i, tf, environment) ==
    IF i > Len(PolicyNames) THEN <<>>
    ELSE LET name == PolicyNames[i]
             rest == ValidateFrom(i + 1, tf, environment)
         IN  IF SkipPolicy(name, environment) THEN rest
             ELSE IF ~PolicyCheck(name, tf)
                  THEN <<[policy |-> name,
                          description |-> PolicyDescription(name),
                          severity |-> "high"]>> \o rest
                  ELSE rest

\* InfrastructureAgent._validate_policies
validate_policies(tf, environment) == ValidateFrom(1, tf, environment)

\* cost_map of _estimate_cost, in declaration order: the needle is
\* resource.replace("aws_", ""), the cost is costs.get("base", first value)
CostMap == << [resource |-> "aws_instance",     needle |-> S_instance,     base_cost |-> 8],
              [resource |-> "aws_eks_cluster",  needle |-> S_eks_cluster,  base_cost |-> 73],
              [resource |-> "aws_rds_instance", needle |-> S_rds_instance, base_cost |-> 13],
              [resource |-> "aws_s3_bucket",    needle |-> S_s3_bucket,    base_cost |-> 2],
              [resource |-> "aws_elasticache",  needle |-> S_elasticache,  base_cost |-> 25] >>

RECURSIVE CostFrom(_, _)
CostFrom(i, tf) ==
    IF i > Len(CostMap) THEN [estimated_monthly_usd |-> 0, resources_detected |-> <<>>]
    ELSE LET rest == CostFrom(i + 1, tf)
         IN  IF In(CostMap[i].needle, Lower(tf))
             THEN [estimated_monthly_usd |-> CostMap[i].base_cost + rest.estimated_monthly_usd,
                   resources_detected |-> <<CostMap[i].resource>> \o rest.resources_detected]
             ELSE rest

\* InfrastructureAgent._estimate_cost
estimate_cost(tf) == CostFrom(1, tf)

WouldApplyIgnoringDryRun(approved, dry_run) == approved

\* "would_apply": approved and not dry_run
WouldApply(approved, dry_run) == approved /\ ~dry_run

PoliciesCheckedCount == Len(PolicyNames)

\* the dict returned by InfrastructureAgent.plan
PlanResult(tf, environment, dry_run) ==
    LET violations == validate_policies(tf, environment)
        cost == estimate_cost(tf)
        approved == Len(violations) = 0
    IN  [plan |-> [terraform_code |-> tf],
         policy_check |-> [approved |-> approved,
                           violations |-> violations,
                           policies_checked |-> PoliciesCheckedCount],
         cost_estimate |-> cost,
         dry_run |-> dry_run,
         would_apply |-> WouldApply(approved, dry_run)]

\* words a generated artifact is made of, and the artifacts themselves
W_Tags == <<"T","a","g","s">>
ArtifactWords == <<S_public, S_block_public, W_Tags, S_2xlarge, S_4xlarge,
                   S_s3_bucket, S_kms, S_rds_instance>>

\* the words of ArtifactWords whose index is in I, in table order
RECURSIVE PickWords(_, _)
PickWords(I, k) ==
    IF k > Len(ArtifactWords) THEN <<>>
    ELSE (IF k \in I THEN <<ArtifactWords[k]>> ELSE <<>>) \o PickWords(I, k + 1)

\* generated artifacts: up to MaxWords distinct words joined by spaces
Artifacts == {Join(PickWords(I, 1)) :
                I \in {J \in SUBSET (1..Len(ArtifactWords)) : Cardinality(J) <= MaxWords}}
Environments == {"dev", "staging", "production"}

\* ================================================== incident_agent.py
SAFE_ACTIONS == {"restart_pod", "scale_up_deployment"}

\* action identifiers the reasoning engine may put in safe_actions
ProposableActions == SAFE_ACTIONS \cup {"drain_node"}
Proposals == SeqsUpTo(ProposableActions, MaxActions)
Severities == {"low", "medium", "high"}

RestartCounts == {3, 4}
PodStates == [phase : {"Running"}, restarts : RestartCounts, ready : BOOLEAN]

\* v1.list_namespaced_pod results: pods in list order, named by position
Snapshots == {[i \in 1..Len(s) |-> [name |-> i] @@ s[i]] :
                 s \in SeqsUpTo(PodStates, MaxPods)}

\* _get_pod_status without a cluster
K8sNotAvailable == <<[error |-> "K8s not available"]>>

IsUnhealthyBothRequired(p) == ~Get(p, "ready", FALSE) /\ Get(p, "restarts", 0) > 3

\* not p.get("ready") or p.get("restarts", 0) > 3
IsUnhealthy(p) == ~Get(p, "ready", FALSE) \/ Get(p, "restarts", 0) > 3

\* unhealthy[:3]
FirstThree(seq) == SubSeq(seq, 1, IF Len(seq) < 3 THEN Len(seq) ELSE 3)

\* analysis.get("safe_actions"), None and [] both being falsy
SafeActionsOf(a) == Get(a, "safe_actions", <<>>)

GateIgnoringSeverity(sev, a) == SafeActionsOf(a) # <<>>

\* severity == "high" and analysis.get("safe_actions")
AutoExecuteGate(sev, a) == sev = "high" /\ SafeActionsOf(a) # <<>>

BranchExecutingAnything(action, uh) ==
    IF action = "restart_pod" /\ uh # <<>> THEN "restart"
    ELSE IF action = "scale_up_deployment" THEN "skip"
    ELSE IF uh # <<>> THEN "restart" ELSE "none"

\* the if / elif of the remediation loop
ActionBranch(action, uh) ==
    IF action = "restart_pod" /\ uh # <<>> THEN "restart"
    ELSE IF action = "scale_up_deployment" THEN "skip"
    ELSE "none"

restart_pod_swallowing(initialized) ==
    IF ~initialized
    THEN {[issued |-> FALSE, raised |-> FALSE, result |-> "K8s not available"]}
    ELSE {[issued |-> TRUE, raised |-> FALSE, result |-> "deleted"],
          [issued |-> TRUE, raised |-> FALSE, result |-> "Failed to delete pod"]}

\* IncidentAgent._restart_pod after _init_k8s: without a client it returns a
\* message and issues nothing; otherwise delete_namespaced_pod is issued and
\* either returns or raises, and nothing catches the exception
restart_pod(initialized) ==
    IF ~initialized
    THEN {[issued |-> FALSE, raised |-> FALSE, result |-> "K8s not available"]}
    ELSE {[issued |-> TRUE, raised |-> FALSE, result |-> "deleted"],
          [issued |-> TRUE, raised |-> TRUE, result |-> "none"]}

\* the dict returned by IncidentAgent.analyze
AnalyzeResult(a, ps, uh, ex) ==
    [analysis |-> a,
     cluster_context |-> [total_pods |-> Len(ps), unhealthy |-> Len(uh)],
     auto_executed |-> ex]

\* parsed reasoning-engine answers: with or without a safe_actions key
Analyses == {[root_cause |-> "rc"]} \cup
            {[root_cause |-> "rc", safe_actions |-> p] : p \in Proposals}

\* ================================================== pipeline_agent.py
JobShapes == {<<8, FALSE>>, <<9, FALSE>>, <<9, TRUE>>}
JobConfigs == {[steps |-> sh[1], has_matrix |-> sh[2], has_cache |-> c,
                has_artifacts |-> a, needs |-> n] :
                 sh \in JobShapes, c \in BOOLEAN, a \in BOOLEAN,
                 n \in {<<>>, <<"build">>}}

\* keys of the workflow's jobs mapping, in document order
JobNames == <<"build", "test", "deploy", "lint">>

\* results of _parse_workflow: jobs in document order
ParsedWorkflows ==
    {[error |-> "Invalid YAML"], [error |-> "Not a valid workflow"]} \cup
    {[total_jobs |-> Len(js),
      jobs |-> [i \in 1..Len(js) |-> [name |-> JobNames[i]] @@ js[i]]] :
        js \in SeqsUpTo(JobConfigs, MaxJobs)}

\* the three per-job rules of _detect_quick_wins
JobSuggestions(job, total_jobs) ==
    (IF ~job.has_cache
     THEN <<[type |-> "caching", job |-> job.name, impact |-> "high"]>> ELSE <<>>)
    \o
    (IF job.steps > 8 /\ ~job.has_matrix
     THEN <<[type |-> "parallelization", job |-> job.name, impact |-> "medium"]>> ELSE <<>>)
    \o
    (IF ~job.has_artifacts /\ total_jobs > 1
     THEN <<[type |-> "artifacts", job |-> job.name, impact |-> "low"]>> ELSE <<>>)

RECURSIVE PerJobFrom(_, _, _)
PerJobFrom(i, jobs, total_jobs) ==
    IF i > Len(jobs) THEN <<>>
    ELSE JobSuggestions(jobs[i], total_jobs) \o PerJobFrom(i + 1, jobs, total_jobs)

detect_quick_wins_any_independent(analysis) ==
    LET jobs == Get(analysis, "jobs", <<>>)
        independent == SelectSeq(jobs, LAMBDA j : j.needs = <<>>)
    IN  PerJobFrom(1, jobs, Get(analysis, "total_jobs", 0))
        \o (IF Len(independent) > 0
            THEN <<[type |-> "parallelization", job |-> "workflow", impact |-> "high"]>>
            ELSE <<>>)

\* PipelineAgent._detect_quick_wins
detect_quick_wins(analysis) ==
    LET jobs == Get(analysis, "jobs", <<>>)
        independent == SelectSeq(jobs, LAMBDA j : j.needs = <<>>)
    IN  PerJobFrom(1, jobs, Get(analysis, "total_jobs", 0))
        \o (IF Len(independent) > 1
            THEN <<[type |-> "parallelization", job |-> "workflow", impact |-> "high"]>>
            ELSE <<>>)

\* number of entries in the reasoning engine's "suggestions" array
AiSuggestionCounts == {0, 1}

\* the dict returned by PipelineAgent.optimize
OptimizeResult(analysis, n_ai) ==
    LET quick_wins == detect_quick_wins(analysis)
    IN  [workflow_analysis |-> analysis,
         quick_wins |-> quick_wins,
         ai_suggestions |-> n_ai,
         summary |-> [total_jobs |-> Get(analysis, "total_jobs", 0),
                      optimization_opportunities |-> Len(quick_wins) + n_ai]]

\* =================================================== orchestrator.py
HandlerKeys == <<S_incident, S_infrastructure, S_pipeline>>

HandlerOrIncident(intent) ==
    IF intent = S_infrastructure THEN "infrastructure"
    ELSE IF intent = S_pipeline THEN "pipeline"
    ELSE "incident"

\* handlers.get(intent)
HandlerFor(intent) ==
    IF intent = S_incident THEN "incident"
    ELSE IF intent = S_infrastructure THEN "infrastructure"
    ELSE IF intent = S_pipeline THEN "pipeline"
    ELSE "none"

RouteDefaultsHighSeverity ==
    [severity |-> "high", environment |-> "staging", dry_run |-> TRUE]

\* the arguments route's handlers table passes on the caller's behalf
RouteDefaults ==
    [severity |-> "medium", environment |-> "staging", dry_run |-> TRUE]

StopAfterFour(n) == n >= 4

\* stop_after_attempt(3)
StopAfterAttempt(n) == n >= 3

\* response.choices[0].message.content.strip().lower()
Normalize(content) == Lower(Strip(content))

\* message contents the reasoning engine may answer a classification with
R_IncidentPadded == <<" ","I","n","c","i","d","e","n","t","\n">>
R_PIPELINE == <<"P","I","P","e","l","i","n","e">>
R_deploy == <<"d","e","p","l","o","y">>
ClassifierContents == {S_incident, R_IncidentPadded, S_infrastructure,
                       R_PIPELINE, R_deploy, <<>>}

\* ================================================================ state
VARIABLES
    pc,               \* position of the request being served
    entry,            \* "route" or "direct": the orchestrator operation called
    handler,          \* specialist handler invoked for this request
    k8s_initialized,  \* IncidentAgent._k8s_initialized
    severity,         \* analyze(severity)
    environment,      \* plan(environment)
    dry_run,          \* plan(dry_run)
    attempts,         \* attempts tenacity has made at _classify_intent
    attempt_log,      \* outcome of each attempt, with the message content
    intent,           \* route's local `intent`
    pod_status,       \* analyze's local `pod_status`
    unhealthy,        \* analyze's local `unhealthy`
    pod_logs,         \* analyze's local `pod_logs`
    analysis,         \* analyze's local `analysis`
    llm_returned,     \* the awaited completion of analyze has returned
    idx,              \* position of the remediation loop in safe_actions
    executed,         \* analyze's local `executed`
    k8s_writes,       \* mutating calls issued to the cluster backend
    workflow,         \* optimize's local `analysis`
    result,           \* value returned to the caller
    error             \* exception raised to the caller

vars == <<pc, entry, handler, k8s_initialized, severity, environment, dry_run,
          attempts, attempt_log, intent, pod_status, unhealthy, pod_logs,
          analysis, llm_returned, idx, executed, k8s_writes, workflow,
          result, error>>

classifierVars == <<attempts, attempt_log, intent>>
incidentVars == <<severity, pod_status, unhealthy, pod_logs, analysis,
                  llm_returned, idx, executed, k8s_writes>>
infraVars == <<environment, dry_run>>

Init ==
    /\ pc = "idle"
    /\ entry = "none"
    /\ handler = "none"
    /\ k8s_initialized = FALSE
    /\ severity = "none"
    /\ environment = "none"
    /\ dry_run = FALSE
    /\ attempts = 0
    /\ attempt_log = <<>>
    /\ intent = <<>>
    /\ pod_status = <<>>
    /\ unhealthy = <<>>
    /\ pod_logs = <<>>
    /\ analysis = <<>>
    /\ llm_returned = FALSE
    /\ idx = 0
    /\ executed = <<>>
    /\ k8s_writes = <<>>
    /\ workflow = <<>>
    /\ result = <<>>
    /\ error = "none"

\* ----------------------------------------------------- IncidentAgent
LogResults == {"log", "Failed to fetch logs"}

\* analyze from the unhealthy filter up to the awaited completion
GatherLogs(ps) ==
    LET uh == SelectSeq(ps, IsUnhealthy)
        firsts == FirstThree(uh)
    IN  /\ pod_status' = ps
        /\ unhealthy' = uh
        /\ IF \E i \in 1..Len(firsts) : "name" \notin DOMAIN firsts[i]
           THEN /\ pod_logs' = <<>>
                /\ pc' = "error"
                /\ error' = "KeyError"
           ELSE /\ \E logs \in [1..Len(firsts) -> LogResults] :
                     pod_logs' = [i \in 1..Len(firsts) |->
                                    [name |-> firsts[i].name, log |-> logs[i]]]
                /\ pc' = "inc_llm"
                /\ error' = error

\* IncidentAgent.analyze up to its await: _get_pod_status (with _init_k8s),
\* the unhealthy filter and _get_pod_logs
Gather(sev) ==
    /\ severity' = sev
    /\ \E avail \in BOOLEAN :
         LET initialized == k8s_initialized \/ avail
         IN  /\ k8s_initialized' = initialized
             /\ IF ~initialized
                THEN GatherLogs(K8sNotAvailable)
                ELSE \/ \E s \in Snapshots : GatherLogs(s)
                     \/ /\ pod_status' = <<>>
                        /\ unhealthy' = <<>>
                        /\ pod_logs' = <<>>
                        /\ pc' = "error"
                        /\ error' = "ApiException"
    /\ UNCHANGED <<analysis, llm_returned, idx, executed, k8s_writes>>

\* orchestrator.handle_incident called by the HTTP layer
HandleIncident ==
    /\ pc = "idle"
    /\ \E sev \in Severities :
         /\ entry' = "direct"
         /\ handler' = "incident"
         /\ Gather(sev)
         /\ UNCHANGED <<classifierVars, infraVars, workflow, result>>

\* the completion awaited by analyze returns parsed JSON; the gate decides
\* whether the remediation loop runs
IncidentLLMReturn ==
    /\ pc = "inc_llm"
    /\ \E a \in Analyses :
         /\ analysis' = a
         /\ llm_returned' = TRUE
         /\ executed' = <<>>
         /\ IF AutoExecuteGate(severity, a)
            THEN /\ pc' = "inc_loop"
                 /\ idx' = 1
                 /\ result' = result
            ELSE /\ pc' = "done"
                 /\ idx' = idx
                 /\ result' = AnalyzeResult(a, pod_status, unhealthy, <<>>)
         /\ UNCHANGED <<entry, handler, k8s_initialized, severity, environment, dry_run,
                        classifierVars, pod_status, unhealthy, pod_logs, k8s_writes,
                        workflow, error>>

\* one iteration of `for action in analysis["safe_actions"]`, _restart_pod
\* included: _init_k8s, then delete_namespaced_pod, which may raise
RemediationStep ==
    /\ pc = "inc_loop"
    /\ idx <= Len(SafeActionsOf(analysis))
    /\ LET action == SafeActionsOf(analysis)[idx]
           branch == ActionBranch(action, unhealthy)
       IN  CASE branch = "restart" ->
                  \E avail \in BOOLEAN :
                    LET initialized == k8s_initialized \/ avail
                    IN  /\ k8s_initialized' = initialized
                        /\ \E o \in restart_pod(initialized) :
                             /\ k8s_writes' =
                                  IF o.issued
                                  THEN Append(k8s_writes,
                                         [op |-> "delete_pod", name |-> unhealthy[1].name])
                                  ELSE k8s_writes
                             /\ IF o.raised
                                THEN /\ pc' = "error"
                                     /\ error' = "ApiException"
                                     /\ UNCHANGED <<executed, idx>>
                                ELSE /\ executed' = Append(executed,
                                           [action |-> action, result |-> o.result])
                                     /\ idx' = idx + 1
                                     /\ UNCHANGED <<pc, error>>
              [] branch = "skip" ->
                  /\ executed' = Append(executed,
                         [action |-> action, result |-> "Requires deployment name - skipped"])
                  /\ idx' = idx + 1
                  /\ UNCHANGED <<pc, error, k8s_writes, k8s_initialized>>
              [] branch = "none" ->
                  /\ idx' = idx + 1
                  /\ UNCHANGED <<pc, error, executed, k8s_writes, k8s_initialized>>
    /\ UNCHANGED <<entry, handler, severity, environment, dry_run, classifierVars,
                   pod_status, unhealthy, pod_logs, analysis, llm_returned,
                   workflow, result>>

\* the return statement of analyze after the loop
AnalyzeReturn ==
    /\ pc = "inc_loop"
    /\ idx > Len(SafeActionsOf(analysis))
    /\ pc' = "done"
    /\ result' = AnalyzeResult(analysis, pod_status, unhealthy, executed)
    /\ UNCHANGED <<entry, handler, k8s_initialized, infraVars, classifierVars,
                   incidentVars, workflow, error>>

\* ------------------------------------------------ InfrastructureAgent
\* InfrastructureAgent.plan up to its await
StartPlan(env, dr) ==
    /\ environment' = env
    /\ dry_run' = dr
    /\ pc' = "infra_llm"

\* orchestrator.handle_infrastructure called by the HTTP layer
HandleInfrastructure ==
    /\ pc = "idle"
    /\ \E env \in Environments, dr \in BOOLEAN :
         /\ entry' = "direct"
         /\ handler' = "infrastructure"
         /\ StartPlan(env, dr)
         /\ UNCHANGED <<k8s_initialized, classifierVars, incidentVars, workflow,
                        result, error>>

\* the completion awaited by plan returns an artifact; policy validation,
\* cost estimate and the returned dict
PlanLLMReturn ==
    /\ pc = "infra_llm"
    /\ \E tf \in Artifacts :
         /\ result' = PlanResult(tf, environment, dry_run)
         /\ pc' = "done"
         /\ UNCHANGED <<entry, handler, k8s_initialized, infraVars, classifierVars,
                        incidentVars, workflow, error>>

\* ------------------------------------------------------ PipelineAgent
\* PipelineAgent.optimize up to its await: _parse_workflow
StartOptimize(wf) ==
    /\ workflow' = wf
    /\ pc' = "pipe_llm"

\* orchestrator.handle_pipeline called by the HTTP layer
HandlePipeline ==
    /\ pc = "idle"
    /\ \E wf \in ParsedWorkflows :
         /\ entry' = "direct"
         /\ handler' = "pipeline"
         /\ StartOptimize(wf)
         /\ UNCHANGED <<k8s_initialized, classifierVars, incidentVars, infraVars,
                        result, error>>

\* the completion awaited by optimize returns; quick wins and summary
PipelineLLMReturn ==
    /\ pc = "pipe_llm"
    /\ \E n_ai \in AiSuggestionCounts :
         /\ result' = OptimizeResult(workflow, n_ai)
         /\ pc' = "done"
         /\ UNCHANGED <<entry, handler, k8s_initialized, infraVars, classifierVars,
                        incidentVars, workflow, error>>

\* a handler's awaited completion raises, or its content is not JSON
ReasoningEngineFails ==
    /\ pc \in {"inc_llm", "infra_llm", "pipe_llm"}
    /\ pc' = "error"
    /\ error' = "ReasoningEngineError"
    /\ UNCHANGED <<entry, handler, k8s_initialized, infraVars, classifierVars,
                   incidentVars, workflow, result>>

\* -------------------------------------------------- AgentOrchestrator
\* orchestrator.route called by the HTTP layer: first attempt is pending
Route ==
    /\ pc = "idle"
    /\ entry' = "route"
    /\ pc' = "classify"
    /\ UNCHANGED <<handler, k8s_initialized, infraVars, classifierVars,
                   incidentVars, workflow, result, error>>

\* an attempt of _classify_intent raises (transport error, or content None);
\* tenacity retries unless stop_after_attempt says stop, then raises RetryError
ClassifyAttemptFails ==
    /\ pc = "classify"
    /\ attempts' = attempts + 1
    /\ attempt_log' = Append(attempt_log, [ok |-> FALSE])
    /\ IF StopAfterAttempt(attempts + 1)
       THEN pc' = "error" /\ error' = "RetryError"
       ELSE UNCHANGED <<pc, error>>
    /\ UNCHANGED <<entry, handler, k8s_initialized, infraVars, intent,
                   incidentVars, workflow, result>>

\* an attempt of _classify_intent succeeds and returns the normalised content
ClassifyAttemptSucceeds ==
    /\ pc = "classify"
    /\ \E content \in ClassifierContents :
         /\ attempts' = attempts + 1
         /\ attempt_log' = Append(attempt_log, [ok |-> TRUE, content |-> content])
         /\ intent' = Normalize(content)
         /\ pc' = "dispatch"
         /\ UNCHANGED <<entry, handler, k8s_initialized, infraVars, incidentVars,
                        workflow, result, error>>

\* route after _classify_intent returned: handlers.get(intent), the error
\* payload, or the chosen handler with route's default parameters
RouteDispatch ==
    /\ pc = "dispatch"
    /\ attempts' = 0
    /\ attempt_log' = <<>>
    /\ intent' = intent
    /\ LET h == HandlerFor(intent)
       IN  /\ handler' = h
           /\ CASE h = "none" ->
                    /\ result' = [error |-> <<"Unknown intent: ", intent>>,
                                  supported |-> HandlerKeys]
                    /\ pc' = "done"
                    /\ UNCHANGED <<k8s_initialized, incidentVars, infraVars,
                                   workflow, error>>
                [] h = "incident" ->
                    /\ Gather(RouteDefaults.severity)
                    /\ UNCHANGED <<infraVars, workflow, result>>
                [] h = "infrastructure" ->
                    /\ StartPlan(RouteDefaults.environment, RouteDefaults.dry_run)
                    /\ UNCHANGED <<k8s_initialized, incidentVars, workflow,
                                   result, error>>
                [] h = "pipeline" ->
                    /\ \E wf \in ParsedWorkflows : StartOptimize(wf)
                    /\ UNCHANGED <<k8s_initialized, incidentVars, infraVars,
                                   result, error>>
    /\ entry' = entry

\* the response is sent; the request's values are discarded
Reset ==
    /\ pc \in {"done", "error"}
    /\ pc' = "idle"
    /\ entry' = "none"
    /\ handler' = "none"
    /\ severity' = "none"
    /\ environment' = "none"
    /\ dry_run' = FALSE
    /\ attempts' = 0
    /\ attempt_log' = <<>>
    /\ intent' = <<>>
    /\ pod_status' = <<>>
    /\ unhealthy' = <<>>
    /\ pod_logs' = <<>>
    /\ analysis' = <<>>
    /\ llm_returned' = FALSE
    /\ idx' = 0
    /\ executed' = <<>>
    /\ k8s_writes' = <<>>
    /\ workflow' = <<>>
    /\ result' = <<>>
    /\ error' = "none"
    /\ k8s_initialized' = k8s_initialized

Next ==
    \/ HandleIncident
    \/ IncidentLLMReturn
    \/ RemediationStep
    \/ AnalyzeReturn
    \/ HandleInfrastructure
    \/ PlanLLMReturn
    \/ HandlePipeline
    \/ PipelineLLMReturn
    \/ ReasoningEngineFails
    \/ Route
    \/ ClassifyAttemptFails
    \/ ClassifyAttemptSucceeds
    \/ RouteDispatch
    \/ Reset

Spec == Init /\ [][Next]_vars

\* =============================================================== claims
IncidentReturned == pc = "done" /\ handler = "incident"
InfraReturned == pc = "done" /\ handler = "infrastructure"
ActionsOf(ex) == [i \in 1..Len(ex) |-> ex[i].action]
Violated(name) == \E i \in 1..Len(result.policy_check.violations) :
                      result.policy_check.violations[i].policy = name

\* C1: for every severity other than "high", whatever safe_actions the
\* reasoning engine proposes, analyze issues no mutating call to the cluster
\* and returns an empty auto_executed list.
C1_NoAutoExecutionBelowHigh ==
    (handler = "incident" /\ severity # "high") =>
        /\ k8s_writes = <<>>
        /\ executed = <<>>
        /\ pc = "done" => result.auto_executed = <<>>

C1_Witness ==
    /\ IncidentReturned
    /\ severity = "medium"
    /\ unhealthy # <<>>
    /\ SafeActionsOf(analysis) = <<"restart_pod", "scale_up_deployment">>

\* C2: an action identifier outside SAFE_ACTIONS is never recorded in
\* auto_executed and never causes a call to the cluster, for every severity:
\* each mutating call is accounted for by an allow-listed restart_pod that
\* the loop has reached.
C2_OnlyAllowlistedExecuted ==
    handler = "incident" =>
        /\ \A i \in 1..Len(executed) : executed[i].action \in SAFE_ACTIONS
        /\ Len(k8s_writes) <=
             Cardinality({i \in 1..Len(SafeActionsOf(analysis)) :
                             i <= idx /\ SafeActionsOf(analysis)[i] = "restart_pod"})
        /\ pc = "done" =>
             \A i \in 1..Len(result.auto_executed) :
                 result.auto_executed[i].action \in SAFE_ACTIONS

C2_Witness ==
    /\ IncidentReturned
    /\ severity = "high"
    /\ unhealthy # <<>>
    /\ SafeActionsOf(analysis) = <<"drain_node", "restart_pod">>
    /\ ActionsOf(result.auto_executed) = <<"restart_pod">>
    /\ Len(k8s_writes) = 1

\* C3: with severity "high", every proposed allow-listed action yields exactly
\* one auto_executed entry (an outcome or a "skipped" record), restart_pod
\* without an unhealthy pod included; none is silently dropped.
C3_EveryAllowlistedActionRecorded ==
    (IncidentReturned /\ severity = "high") =>
        ActionsOf(result.auto_executed) =
            SelectSeq(SafeActionsOf(analysis), LAMBDA a : a \in SAFE_ACTIONS)

\* the scenario of C4: severity high, exactly one pod of the snapshot is
\* not ready or has more than 3 restarts, and the proposal is [restart_pod]
C4_UnhealthyIndexes ==
    {i \in 1..Len(pod_status) :
        /\ "name" \in DOMAIN pod_status[i]
        /\ (~pod_status[i].ready \/ pod_status[i].restarts > 3)}
C4_Scenario ==
    /\ handler = "incident"
    /\ llm_returned
    /\ severity = "high"
    /\ SafeActionsOf(analysis) = <<"restart_pod">>
    /\ Cardinality(C4_UnhealthyIndexes) = 1

\* C4: in that scenario delete_pod is issued exactly once, for the unhealthy
\* pod, only after the reasoning-engine call has returned, and auto_executed
\* holds exactly one entry, whose action is restart_pod.
C4_RestartScenario ==
    /\ k8s_writes # <<>> => llm_returned
    /\ C4_Scenario =>
         /\ Len(k8s_writes) <= 1
         /\ \A w \in 1..Len(k8s_writes) :
              /\ k8s_writes[w].op = "delete_pod"
              /\ \E i \in C4_UnhealthyIndexes : pod_status[i].name = k8s_writes[w].name
         /\ pc = "done" =>
              /\ Len(k8s_writes) = 1
              /\ ActionsOf(result.auto_executed) = <<"restart_pod">>

C4_Witness ==
    /\ C4_Scenario
    /\ pc = "done"
    /\ Len(pod_status) = 2
    /\ pod_status[1].ready /\ pod_status[1].restarts = 3
    /\ pod_status[2].ready /\ pod_status[2].restarts = 4
    /\ k8s_writes = <<[op |-> "delete_pod", name |-> pod_status[2].name]>>

\* C5: outside production, _validate_policies reports instance_size_limit
\* whenever the artifact contains "2xlarge" or contains "4xlarge".
C5_LargeSizeReported ==
    (InfraReturned /\ environment # "production"
       /\ (In(S_2xlarge, result.plan.terraform_code)
           \/ In(S_4xlarge, result.plan.terraform_code)))
    => Violated("instance_size_limit")

\* C6: in production the violations never contain instance_size_limit, and
\* approved is decided by no_public_s3, enforce_tagging and
\* encryption_required alone.
C6_ProductionSkipsSizeLimit ==
    (InfraReturned /\ environment = "production") =>
        /\ ~Violated("instance_size_limit")
        /\ result.policy_check.approved =
             (/\ PolicyCheck("no_public_s3", result.plan.terraform_code)
              /\ PolicyCheck("enforce_tagging", result.plan.terraform_code)
              /\ PolicyCheck("encryption_required", result.plan.terraform_code))

C6_Witness ==
    /\ InfraReturned
    /\ environment = "production"
    /\ In(S_2xlarge, result.plan.terraform_code)
    /\ In(S_4xlarge, result.plan.terraform_code)
    /\ result.policy_check.approved

\* C7: would_apply is true iff the violations list is empty and dry_run is
\* false; it is never true while a rule that is not skipped fails on the
\* artifact; the cost estimate plays no part in approved or would_apply.
C7_WouldApply ==
    InfraReturned =>
        /\ result.would_apply =
             (result.policy_check.violations = <<>> /\ ~result.dry_run)
        /\ result.policy_check.approved = (result.policy_check.violations = <<>>)
        /\ result.dry_run = dry_run
        /\ result.would_apply =>
             \A i \in 1..Len(PolicyNames) :
                 \/ (PolicyNames[i] = "instance_size_limit" /\ environment = "production")
                 \/ PolicyCheck(PolicyNames[i], result.plan.terraform_code)

C7_Witness ==
    /\ InfraReturned
    /\ result.would_apply
    /\ result.cost_estimate.estimated_monthly_usd > 0

\* C8: policies_checked is the number of rules evaluated for the request:
\* 3 in production, where instance_size_limit is skipped, and 4 otherwise.
C8_PoliciesCheckedCountsEvaluated ==
    InfraReturned =>
        result.policy_check.policies_checked =
            Cardinality({i \in 1..Len(PolicyNames) :
                ~(PolicyNames[i] = "instance_size_limit" /\ environment = "production")})

\* what trimming and lower-casing each message content must give
C9_Expected(content) ==
    CASE content = R_IncidentPadded -> S_incident
      [] content = R_PIPELINE -> S_pipeline
      [] OTHER -> content

\* C9: _classify_intent makes at most 3 attempts; failing twice and then
\* succeeding returns the trimmed, lower-cased content of attempt 3 after
\* exactly 3 attempts; failing every time raises after exactly 3 attempts,
\* and no 4th attempt is ever pending.
C9_ClassifyRetry ==
    /\ attempts <= 3
    /\ Len(attempt_log) = attempts
    /\ pc = "classify" => attempts < 3 /\ \A i \in 1..attempts : ~attempt_log[i].ok
    /\ pc = "dispatch" =>
         /\ \A i \in 1..(attempts - 1) : ~attempt_log[i].ok
         /\ attempt_log[attempts].ok
         /\ intent = C9_Expected(attempt_log[attempts].content)
    /\ error = "RetryError" =>
         /\ attempts = 3
         /\ \A i \in 1..3 : ~attempt_log[i].ok
         /\ pc = "error"

C9_Witness ==
    /\ pc = "dispatch"
    /\ attempts = 3
    /\ attempt_log[3].content = R_IncidentPadded
    /\ intent = S_incident

\* route has received an intent from the classifier and acted on it
C10_Routed == entry = "route" /\ pc \notin {"classify", "dispatch"} /\ error # "RetryError"

\* C10: when classification succeeds with a value outside {incident,
\* infrastructure, pipeline}, route returns an error payload naming the three
\* categories, raises nothing and invokes no specialist handler.
C10_UnrecognizedIntent ==
    (C10_Routed /\ intent \notin {S_incident, S_infrastructure, S_pipeline}) =>
        /\ pc = "done"
        /\ error = "none"
        /\ handler = "none"
        /\ DOMAIN result = {"error", "supported"}
        /\ result.supported = <<S_incident, S_infrastructure, S_pipeline>>
        /\ k8s_writes = <<>>

C10_Witness ==
    /\ C10_Routed
    /\ pc = "done"
    /\ intent = R_deploy
    /\ "error" \in DOMAIN result

\* the classifier of a routed request has used up its attempts
C11_Exhausted ==
    /\ entry = "route"
    /\ pc # "classify"
    /\ attempts = 3
    /\ \A i \in 1..3 : ~attempt_log[i].ok

\* C11: when the classifier exhausts its 3 attempts, route returns the same
\* structured error naming the supported categories as for an unrecognised
\* intent, invokes no handler, and lets no exception escape.
C11_ExhaustionReturnsStructuredError ==
    C11_Exhausted =>
        /\ pc = "done"
        /\ error = "none"
        /\ handler = "none"
        /\ DOMAIN result = {"error", "supported"}
        /\ result.supported = <<S_incident, S_infrastructure, S_pipeline>>

\* analyze was given the placeholder of an unavailable cluster backend
C12_BackendUnavailable ==
    /\ handler = "incident"
    /\ Len(pod_status) = 1
    /\ "error" \in DOMAIN pod_status[1]

\* C12: with the cluster backend unavailable the reads return a placeholder
\* and analyze does not abort: for every severity it goes on to the
\* reasoning-engine call, so the only failure left is that call's own.
C12_ReadsDegradeWithoutAbort ==
    C12_BackendUnavailable =>
        \/ pc \in {"inc_llm", "inc_loop", "done"}
        \/ pc = "error" /\ error = "ReasoningEngineError"

\* auto_executed entries that report a restart
C13_RestartEntries == SelectSeq(executed, LAMBDA e : e.action = "restart_pod")

\* C13: a write attempted while the cluster backend is unavailable is a hard
\* failure: the request ends with an error and returns nothing, and an
\* auto_executed entry for restart_pod exists only for a delete that was
\* issued and acknowledged.
C13_WriteFailureIsHard ==
    handler = "incident" =>
        /\ \A i \in 1..Len(C13_RestartEntries) : C13_RestartEntries[i].result = "deleted"
        /\ Len(C13_RestartEntries) <= Len(k8s_writes)
        /\ (pc = "error" /\ error = "ApiException" /\ llm_returned) =>
             /\ Len(C13_RestartEntries) = Len(k8s_writes) - 1
             /\ DOMAIN result = {}
        /\ pc = "done" => Len(k8s_writes) = Len(C13_RestartEntries)

C13_Witness ==
    /\ handler = "incident"
    /\ pc = "error"
    /\ error = "ApiException"
    /\ SafeActionsOf(analysis) = <<"restart_pod", "restart_pod">>
    /\ Len(k8s_writes) = 2
    /\ Len(executed) = 1

PipelineReturned == pc = "done" /\ handler = "pipeline"
C14_Jobs == Get(result.workflow_analysis, "jobs", <<>>)
C14_Count(P(_)) == Cardinality({i \in 1..Len(result.quick_wins) : P(result.quick_wins[i])})
C14_WorkflowLevel(q) == q.job = "workflow" /\ q.type = "parallelization"

\* C14: _detect_quick_wins emits exactly one "caching" suggestion, impact
\* high, for each job without a caching step and none for the others, and
\* exactly one workflow-scope "parallelization" suggestion iff more than one
\* job declares no dependencies; two jobs without needs and without cache
\* give two caching suggestions and one workflow-level suggestion.
C14_QuickWins ==
    PipelineReturned =>
        /\ \A j \in 1..Len(C14_Jobs) :
             LET Caching(q) == q.type = "caching" /\ q.job = C14_Jobs[j].name
             IN  C14_Count(Caching) = IF C14_Jobs[j].has_cache THEN 0 ELSE 1
        /\ \A i \in 1..Len(result.quick_wins) :
             result.quick_wins[i].type = "caching" =>
                 /\ result.quick_wins[i].impact = "high"
                 /\ \E j \in 1..Len(C14_Jobs) : C14_Jobs[j].name = result.quick_wins[i].job
        /\ C14_Count(C14_WorkflowLevel) =
             IF Cardinality({j \in 1..Len(C14_Jobs) : C14_Jobs[j].needs = <<>>}) > 1
             THEN 1 ELSE 0
        /\ (/\ Len(C14_Jobs) = 2
            /\ \A j \in 1..2 : C14_Jobs[j].needs = <<>> /\ ~C14_Jobs[j].has_cache)
           => /\ C14_Count(LAMBDA q : q.type = "caching") = 2
              /\ C14_Count(C14_WorkflowLevel) = 1

C14_Witness ==
    /\ PipelineReturned
    /\ Len(C14_Jobs) = 2
    /\ \A j \in 1..2 : C14_Jobs[j].needs = <<>> /\ ~C14_Jobs[j].has_cache
    /\ C14_Count(LAMBDA q : q.type = "caching") = 2
    /\ result.quick_wins[Len(result.quick_wins)].job = "workflow"

C15_NoSideEffect ==
    entry = "route" =>
        /\ k8s_writes = <<>>
        /\ executed = <<>>
        /\ handler = "incident" => severity = "medium"
        /\ handler # "incident" => severity = "none" /\ ~llm_returned
        /\ handler = "infrastructure" => dry_run
        /\ handler # "infrastructure" => environment = "none"
        /\ handler # "pipeline" => DOMAIN workflow = {}
        /\ (pc = "done" /\ handler = "incident") => result.auto_executed = <<>>
        /\ (pc = "done" /\ handler = "infrastructure") => ~result.would_apply

C15_OneHandler ==
    (entry = "route" /\ handler # "none" /\ entry' = "route") => handler' = handler

\* C15: a request entering through route never mutates the cluster and never
\* yields would_apply = true, whatever the classifier and the reasoning
\* engine return: route dispatches to at most one handler, with severity
\* "medium" for incidents and dry_run = true for infrastructure.
C15_RouteIsSideEffectFree == []C15_NoSideEffect /\ [][C15_OneHandler]_vars

C15_Witness ==
    /\ entry = "route"
    /\ pc = "done"
    /\ handler = "incident"
    /\ unhealthy # <<>>
    /\ SafeActionsOf(analysis) = <<"restart_pod">>

====
